---- MODULE Spec2Model ----
(***************************************************************************)
(* Model of the Copilot provider of edgard/opencompat:                     *)
(*   - Client.getCopilotToken (client.go): the cached token behind a       *)
(*     sync.RWMutex, refreshed with double-checked locking;                *)
(*   - Provider.ChatCompletion / Client.SendRequest: request translation;  *)
(*   - Stream (stream adapter): Next / Response / Err / Close.             *)
(* Three specifications share the variables:                               *)
(*   Spec          concurrent getCopilotToken calls on one Client          *)
(*   ProviderSpec  one ChatCompletion call, from request to NewStream      *)
(*   StreamSpec    the life of one Stream                                  *)
(***************************************************************************)
EXTENDS Integers, Sequences, FiniteSets, TLC

(* ------------------------------ bounds --------------------------------- *)
NumCallers == 2
MaxCalls == 3
StartTime == 1000
TickStep == 30
MaxTicks == 2
MaxExpirySteps == 3

(* ------------------------- program constants --------------------------- *)
Margin == 60
StatusOK == 200

Callers == 1..NumCallers
MaxNow == StartTime + MaxTicks * TickStep

\* the endpoint issues a new token at every exchange: the n-th exchange
\* request on this Client is answered, when it succeeds, with token n
IssuedToken(n) == n
\* expires_at values the exchange endpoint may answer with; 0 is what the
\* decoder leaves when the field is missing from the body
ExpiryValues == {0} \cup {StartTime + Margin + k * TickStep : k \in 0..MaxExpirySteps}
ExchangeStatuses == {200, 401, 500}
StoreStates == {"error", "empty", "ok"}

VARIABLES
    now,           \* time.Now(), seconds
    store,         \* what auth.Store.GetOAuthCredentials answers
    copilotToken,  \* Client.copilotToken
    mu,            \* Client.mu: 0 = free, c = write-locked by caller c
    pc,            \* position of each caller in getCopilotToken
    ret,           \* what each caller's last getCopilotToken returned
    calls,         \* number of getCopilotToken calls each caller has made
    slow,          \* history: the caller's fast-path check failed in this call
    recheckAt,     \* history: time of the caller's double-check
    snap,          \* history: Client.copilotToken when the caller took the lock
    issued,        \* history: exchange requests the caller issued in this call
    exchanges,     \* history: exchange requests issued on this Client
    inflight,      \* history: exchange requests sent and not yet answered
    firstRefresh,  \* history: outcome of the first refresh attempt on this Client
    raced          \* history: all callers were waiting for the write lock at once

clientVars == <<now, store, copilotToken, mu, pc, ret, calls, slow, recheckAt,
                snap, issued, exchanges, inflight, firstRefresh, raced>>

(* ======================================================================= *)
(*                     Provider.ChatCompletion: state                      *)
(* ======================================================================= *)
MaxMessages == 2

VARIABLES
    req,           \* the caller's provider.ChatCompletionRequest
    chatReq,       \* the api.ChatCompletionRequest built by ChatCompletion
    wire,          \* the request SendRequest sent to the chat endpoint
    chat,          \* position of the ChatCompletion call
    chatErr        \* the error ChatCompletion returned

chatVars == <<req, chatReq, wire, chat, chatErr>>

(* ------------------------------ CopilotToken --------------------------- *)
NilToken == [isNil |-> TRUE, Token |-> 0, ExpiresAt |-> 0]
CopilotToken(t, e) == [isNil |-> FALSE, Token |-> t, ExpiresAt |-> e]

\* c.copilotToken != nil && time.Now().Add(60*time.Second).Before(c.copilotToken.ExpiresAt)
TokenFresh(tok, t) == ~tok.isNil /\ t + Margin < tok.ExpiresAt

NoRet == [kind |-> "none", Token |-> 0, ExpiresAt |-> 0, at |-> 0, err |-> ""]
RetToken(tok, t) == [kind |-> "token", Token |-> tok.Token, ExpiresAt |-> tok.ExpiresAt,
                     at |-> t, err |-> ""]
RetError(e, t) == [kind |-> "error", Token |-> 0, ExpiresAt |-> 0, at |-> t, err |-> e]

NoRefresh == [seen |-> FALSE, ok |-> FALSE, Token |-> 0, ExpiresAt |-> 0]

ClientInit ==
    /\ now = StartTime
    /\ store \in StoreStates
    /\ copilotToken = NilToken
    /\ mu = 0
    /\ pc = [c \in Callers |-> "idle"]
    /\ ret = [c \in Callers |-> NoRet]
    /\ calls = [c \in Callers |-> 0]
    /\ slow = [c \in Callers |-> FALSE]
    /\ recheckAt = [c \in Callers |-> 0]
    /\ snap = [c \in Callers |-> NilToken]
    /\ issued = [c \in Callers |-> 0]
    /\ exchanges = 0
    /\ inflight = 0
    /\ firstRefresh = NoRefresh
    /\ raced = FALSE

(* ======================================================================= *)
(*                               Stream                                    *)
(* ======================================================================= *)
MaxEvents == 3
MaxNextCalls == 4
MaxCloseCalls == 2
LongBodyExtra == 1

MaxErrorBodyLen == 500

VARIABLES
    resp,          \* Stream.resp: [StatusCode, Body]
    streaming,     \* Stream.streaming
    done,          \* Stream.done
    statusChecked, \* Stream.statusChecked
    response,      \* Stream.response
    err,           \* Stream.err
    readerPos,     \* Stream.reader: events of the body already read
    bodyClosed,    \* resp.Body has been closed
    results,       \* history: what each Next call returned, in order
    bodyRead,      \* history: what io.ReadAll returned to Next: bytes, read failed
    closeCalls,    \* history: number of Close calls
    closeErr,      \* history: what the last Close call returned
    nextPending,   \* a Next call has been entered and has not returned
    closedBefore,  \* history: the body was closed when the pending Next was entered
    closedDuring   \* history: Close ran while the latest Next was pending

streamVars == <<resp, streaming, done, statusChecked, response, err, readerPos,
                bodyClosed, results, bodyRead, closeCalls, closeErr,
                nextPending, closedBefore, closedDuring>>

(* ------------------------------- errors -------------------------------- *)
NoErr == [kind |-> "nil", StatusCode |-> 0, Message |-> <<>>]
EOF == [kind |-> "io.EOF", StatusCode |-> 0, Message |-> <<>>]
ReadError == [kind |-> "read error", StatusCode |-> 0, Message |-> <<>>]
DecodeError == [kind |-> "json error", StatusCode |-> 0, Message |-> <<>>]
CloseError == [kind |-> "close error", StatusCode |-> 0, Message |-> <<>>]
\* api.NewUpstreamError(statusCode, message)
NewUpstreamError(code, message) ==
    [kind |-> "UpstreamError", StatusCode |-> code, Message |-> message]

(* ----------------------- text as sequences of bytes -------------------- *)
UpperToLower == [A |-> "a", B |-> "b", C |-> "c", D |-> "d", E |-> "e", F |-> "f", G |-> "g", H |-> "h", I |-> "i", J |-> "j", K |-> "k", L |-> "l", M |-> "m", N |-> "n", O |-> "o", P |-> "p", Q |-> "q", R |-> "r", S |-> "s", T |-> "t", U |-> "u", V |-> "v", W |-> "w", X |-> "x", Y |-> "y", Z |-> "z"]
\* strings.ToLower
ToLower(s) == [i \in 1..Len(s) |-> IF s[i] \in DOMAIN UpperToLower
                                   THEN UpperToLower[s[i]] ELSE s[i]]
\* strings.Contains
Contains(s, sub) ==
    \E i \in 1..(Len(s) - Len(sub) + 1) : SubSeq(s, i, i + Len(sub) - 1) = sub

TxtModel == <<"m", "o", "d", "e", "l">>
TxtNotSupported == <<"n", "o", "t", " ", "s", "u", "p", "p", "o", "r", "t", "e", "d">>
TxtNotAvailable == <<"n", "o", "t", " ", "a", "v", "a", "i", "l", "a", "b", "l", "e">>
TxtHint == <<"\n", "\n", "M", "a", "k", "e", " ", "s", "u", "r", "e", " ", "t", "h", "e", " ", "m", "o", "d", "e", "l", " ", "i", "s", " ", "e", "n", "a", "b", "l", "e", "d", " ", "i", "n", " ", "y", "o", "u", "r", " ", "C", "o", "p", "i", "l", "o", "t", " ", "s", "e", "t", "t", "i", "n", "g", "s", ":", " ", "h", "t", "t", "p", "s", ":", "/", "/", "g", "i", "t", "h", "u", "b", ".", "c", "o", "m", "/", "s", "e", "t", "t", "i", "n", "g", "s", "/", "c", "o", "p", "i", "l", "o", "t">>
TxtUnknownError == <<"u", "n", "k", "n", "o", "w", "n", " ", "e", "r", "r", "o", "r">>
TxtEllipsis == <<".", ".", ".">>

enhanceErrorMessageAnySubject(message) ==
    LET lower == ToLower(message) IN
    IF Contains(lower, TxtNotSupported) \/ Contains(lower, TxtNotAvailable)
    THEN message \o TxtHint
    ELSE message

\* enhanceErrorMessage
enhanceErrorMessage(message) ==
    LET lower == ToLower(message) IN
    IF Contains(lower, TxtModel)
       /\ (Contains(lower, TxtNotSupported) \/ Contains(lower, TxtNotAvailable))
    THEN message \o TxtHint
    ELSE message

\* parseUpstreamError: body is [raw, valid, errorMessage, message], the bytes
\* and what json.Unmarshal makes of them for the two error shapes
parseUpstreamError(body) ==
    LET message == IF body.valid
                   THEN IF body.errorMessage # <<>> THEN body.errorMessage
                        ELSE IF body.message # <<>> THEN body.message
                        ELSE <<>>
                   ELSE <<>>
        bodyStr == IF Len(body.raw) > MaxErrorBodyLen
                   THEN SubSeq(body.raw, 1, MaxErrorBodyLen) \o TxtEllipsis
                   ELSE body.raw
    IN  IF message = <<>>
        THEN IF bodyStr = <<>> THEN TxtUnknownError
             ELSE enhanceErrorMessage(bodyStr)
        ELSE enhanceErrorMessage(message)

(* ------------------------- bodies of the upstream ---------------------- *)
\* a body that is not JSON
TextBody(raw) == [raw |-> raw, valid |-> FALSE, errorMessage |-> <<>>, message |-> <<>>]
\* a JSON object with error.message and message members ("" when absent)
JsonBody(em, m) ==
    [raw |-> <<"{", "\"", "e", "r", "r", "o", "r", "\"", ":", "{", "\"", "m", "e", "s", "s", "a", "g", "e", "\"", ":", "\"">> \o em \o <<"\"", "}", ",", "\"", "m", "e", "s", "s", "a", "g", "e", "\"", ":", "\"">> \o m \o <<"\"", "}">>,
     valid |-> TRUE, errorMessage |-> em, message |-> m]
LongText == [i \in 1..(MaxErrorBodyLen + LongBodyExtra) |-> "x"]

ErrorBodies ==
    { TextBody(<<>>),
      TextBody(<<"b", "a", "d", " ", "g", "a", "t", "e", "w", "a", "y">>),
      TextBody(LongText),
      JsonBody(<<"M", "o", "d", "e", "l", " ", "n", "o", "t", " ", "s", "u", "p", "p", "o", "r", "t", "e", "d">>, <<"i", "g", "n", "o", "r", "e", "d">>),
      JsonBody(<<>>, <<"r", "a", "t", "e", " ", "l", "i", "m", "i", "t", "e", "d">>),
      JsonBody(<<>>, <<>>) }

\* the messages and bodies the error normalizer is applied to; "<C3>" and
\* "<A9>" are the two bytes of one character outside ASCII
MessageTexts ==
    { <<>>,
      <<"M", "o", "d", "e", "l", " ", "n", "o", "t", " ", "s", "u", "p", "p", "o", "r", "t", "e", "d">>,
      <<"t", "h", "e", " ", "M", "O", "D", "E", "L", " ", "g", "p", "t", "-", "x", " ", "i", "s", " ", "N", "o", "t", " ", "A", "v", "a", "i", "l", "a", "b", "l", "e">>,
      <<"f", "i", "l", "e", " ", "n", "o", "t", " ", "a", "v", "a", "i", "l", "a", "b", "l", "e">>,
      <<"N", "o", "t", " ", "S", "u", "p", "p", "o", "r", "t", "e", "d">>,
      <<"m", "o", "d", "e", "l", " ", "o", "v", "e", "r", "l", "o", "a", "d", "e", "d">>,
      <<"r", "a", "t", "e", " ", "l", "i", "m", "i", "t", "e", "d">> }
MultiByteLongText ==
    [i \in 1..(MaxErrorBodyLen - 1) |-> "x"] \o <<"<C3>", "<A9>", "x">>
ErrorInputs ==
    { JsonBody(em, m) : em \in MessageTexts, m \in MessageTexts }
    \cup { TextBody(t) : t \in MessageTexts }
    \cup { TextBody(LongText),
           TextBody([i \in 1..MaxErrorBodyLen |-> "x"]),
           TextBody(MultiByteLongText) }

\* parseUpstreamError before the hint pass: the message taken from the body
upstreamMessage(body) ==
    LET message == IF body.valid
                   THEN IF body.errorMessage # <<>> THEN body.errorMessage
                        ELSE IF body.message # <<>> THEN body.message
                        ELSE <<>>
                   ELSE <<>>
        bodyStr == IF Len(body.raw) > MaxErrorBodyLen
                   THEN SubSeq(body.raw, 1, MaxErrorBodyLen) \o TxtEllipsis
                   ELSE body.raw
    IN  IF message = <<>> THEN bodyStr ELSE message

\* what io.ReadAll returns for a body: all of it, or on a failed read the
\* part read so far (a proper prefix is never a complete JSON value)
ReadAllOutcomes(body, closed) ==
    { [bytes |-> TextBody(SubSeq(body.raw, 1, k)), failed |-> TRUE] :
        k \in IF closed THEN {0} ELSE {0, Len(body.raw) \div 2} }
    \cup (IF closed THEN {} ELSE { [bytes |-> body, failed |-> FALSE] })

\* a non-streaming body and what json.Unmarshal makes of it
DocBodies ==
    [valid : {FALSE}, Object : {""}, Created : {0}, payload : {"none"}]
    \cup
    [valid : {TRUE}, Object : {"", "chat.completion"}, Created : {0, 777},
     payload : {"answer"}]

\* the data of one event of a streaming body and what json.Unmarshal makes of it
EmptyData == [len |-> 0, valid |-> FALSE, Object |-> "", Created |-> 0, payload |-> "none"]
MalformedData == [len |-> 7, valid |-> FALSE, Object |-> "", Created |-> 0, payload |-> "none"]
BareChunkData == [len |-> 9, valid |-> TRUE, Object |-> "", Created |-> 0, payload |-> "p1"]
FullChunkData == [len |-> 9, valid |-> TRUE, Object |-> "chat.completion.chunk",
                  Created |-> 777, payload |-> "p2"]
EventDatas == {EmptyData, MalformedData, BareChunkData, FullChunkData}
EventStreams == UNION { [1..n -> EventDatas] : n \in 0..MaxEvents }

StatusCodes == {200, 204, 429, 500}

(* ----------------------------- chunks, responses ----------------------- *)
NilChunk == [isNil |-> TRUE, Object |-> "", Created |-> 0, payload |-> "none"]
NilResponse == [isNil |-> TRUE, Object |-> "", Created |-> 0, payload |-> "none"]
Decoded(d) == [isNil |-> FALSE, Object |-> d.Object, Created |-> d.Created,
               payload |-> d.payload]

\* normalizeChunk
normalizeChunkStampsCreated(chunk, t) ==
    [chunk EXCEPT !.Object = IF @ = "" THEN "chat.completion.chunk" ELSE @,
                  !.Created = t]

normalizeChunk(chunk, t) ==
    [chunk EXCEPT !.Object = IF @ = "" THEN "chat.completion.chunk" ELSE @,
                  !.Created = IF @ = 0 THEN t ELSE @]
\* normalizeResponse
normalizeResponse(r, t) ==
    [r EXCEPT !.Object = IF @ = "" THEN "chat.completion" ELSE @,
              !.Created = IF @ = 0 THEN t ELSE @]

NextResult(chunk, e, t) == [chunk |-> chunk, err |-> e, at |-> t]

(* ------------------------------- NewStream ----------------------------- *)
\* no response has been received: the Stream fields hold their zero values
NoHTTPResponse == [StatusCode |-> 0, Body |-> TextBody(<<>>)]

\* NewStream(resp, streaming): the fields of the Stream it returns
NewStream(r, s) ==
    [resp |-> r, streaming |-> s, done |-> FALSE, statusChecked |-> FALSE,
     response |-> NilResponse, err |-> NoErr, readerPos |-> 0, bodyClosed |-> FALSE]

\* the Stream is v and no call has been made on it
StreamIs(v) ==
    /\ resp = v.resp
    /\ streaming = v.streaming
    /\ done = v.done
    /\ statusChecked = v.statusChecked
    /\ response = v.response
    /\ err = v.err
    /\ readerPos = v.readerPos
    /\ bodyClosed = v.bodyClosed
    /\ results = <<>>
    /\ bodyRead = [bytes |-> TextBody(<<>>), failed |-> FALSE]
    /\ closeCalls = 0
    /\ closeErr = NoErr
    /\ nextPending = FALSE
    /\ closedBefore = FALSE
    /\ closedDuring = FALSE

\* the Stream becomes v
StreamBecomes(v) ==
    /\ resp' = v.resp
    /\ streaming' = v.streaming
    /\ done' = v.done
    /\ statusChecked' = v.statusChecked
    /\ response' = v.response
    /\ err' = v.err
    /\ readerPos' = v.readerPos
    /\ bodyClosed' = v.bodyClosed
    /\ results' = <<>>
    /\ bodyRead' = [bytes |-> TextBody(<<>>), failed |-> FALSE]
    /\ closeCalls' = 0
    /\ closeErr' = NoErr
    /\ nextPending' = FALSE
    /\ closedBefore' = FALSE
    /\ closedDuring' = FALSE

\* the responses the chat endpoint can give to a request with stream flag s
Responses(s) ==
    [StatusCode : StatusCodes \ {StatusOK}, Body : ErrorBodies]
    \cup
    [StatusCode : {StatusOK}, Body : IF s THEN EventStreams ELSE DocBodies]

(* -------------------------------- Stream.Next -------------------------- *)
\* sse.Reader.ReadEvent at position pos; failAt is the position at which the
\* underlying read fails (-1: it does not)
ReadEvent(events, pos, failAt) ==
    IF failAt = pos THEN [event |-> EmptyData, err |-> ReadError]
    ELSE IF pos >= Len(events) THEN [event |-> EmptyData, err |-> EOF]
    ELSE [event |-> events[pos + 1], err |-> NoErr]

\* the streaming loop of Next: read events until one decodes as a chunk, the
\* reader reports the end, or the read fails
RECURSIVE ReadLoopStopsAtMalformed(_, _, _, _)
ReadLoopStopsAtMalformed(events, pos, failAt, t) ==
    LET r == ReadEvent(events, pos, failAt) IN
    IF r.err # NoErr
    THEN [chunk |-> NilChunk, err |-> r.err, pos |-> pos]
    ELSE IF r.event.len = 0
    THEN ReadLoopStopsAtMalformed(events, pos + 1, failAt, t)
    ELSE IF ~r.event.valid
    THEN [chunk |-> NilChunk, err |-> DecodeError, pos |-> pos + 1]
    ELSE [chunk |-> normalizeChunk(Decoded(r.event), t), err |-> NoErr, pos |-> pos + 1]

RECURSIVE ReadLoop(_, _, _, _)
ReadLoop(events, pos, failAt, t) ==
    LET r == ReadEvent(events, pos, failAt) IN
    IF r.err # NoErr
    THEN [chunk |-> NilChunk, err |-> r.err, pos |-> pos]
    ELSE IF r.event.len = 0
    THEN ReadLoop(events, pos + 1, failAt, t)
    ELSE IF ~r.event.valid
    THEN ReadLoop(events, pos + 1, failAt, t)
    ELSE [chunk |-> normalizeChunk(Decoded(r.event), t), err |-> NoErr, pos |-> pos + 1]

readNonStreamingDropsResponse(body, readFailed, t) ==
    IF readFailed THEN [ret |-> ReadError, err |-> ReadError, response |-> NilResponse]
    ELSE IF ~body.valid
    THEN [ret |-> DecodeError, err |-> DecodeError, response |-> NilResponse]
    ELSE [ret |-> EOF, err |-> NoErr, response |-> NilResponse]

readNonStreamingErrNotKept(body, readFailed, t) ==
    IF readFailed THEN [ret |-> ReadError, err |-> NoErr, response |-> NilResponse]
    ELSE IF ~body.valid
    THEN [ret |-> DecodeError, err |-> NoErr, response |-> NilResponse]
    ELSE [ret |-> EOF, err |-> NoErr, response |-> normalizeResponse(Decoded(body), t)]

\* readNonStreaming: the error it returns and the response it stores
readNonStreaming(body, readFailed, t) ==
    IF readFailed THEN [ret |-> ReadError, err |-> ReadError, response |-> NilResponse]
    ELSE IF ~body.valid
    THEN [ret |-> DecodeError, err |-> DecodeError, response |-> NilResponse]
    ELSE [ret |-> EOF, err |-> NoErr, response |-> normalizeResponse(Decoded(body), t)]

\* the read of the body made by Next is certain to find the body closed when
\* Close returned before Next was entered; a Close that runs while Next is
\* pending may come before or after the read
ReadFindsClosed == IF nextPending THEN closedBefore ELSE bodyClosed

\* Next on a Stream that is done
NextExhausted ==
    /\ results' = Append(results, NextResult(NilChunk, EOF, now))
    /\ UNCHANGED <<done, statusChecked, response, err, readerPos, bodyRead>>

\* the first Next finds a status other than 200: drain the body, build the
\* UpstreamError, keep it and return it
NextUpstreamErrorRawMessage ==
    \E rd \in ReadAllOutcomes(resp.Body, ReadFindsClosed) :
      LET e == NewUpstreamError(resp.StatusCode, rd.bytes.raw) IN
      /\ statusChecked' = TRUE
      /\ done' = TRUE
      /\ bodyRead' = rd
      /\ err' = e
      /\ results' = Append(results, NextResult(NilChunk, e, now))
      /\ UNCHANGED <<response, readerPos>>

NextUpstreamError ==
    \E rd \in ReadAllOutcomes(resp.Body, ReadFindsClosed) :
      LET e == NewUpstreamError(resp.StatusCode, parseUpstreamError(rd.bytes)) IN
      /\ statusChecked' = TRUE
      /\ done' = TRUE
      /\ bodyRead' = rd
      /\ err' = e
      /\ results' = Append(results, NextResult(NilChunk, e, now))
      /\ UNCHANGED <<response, readerPos>>

\* the first Next of a non-streaming Stream with status 200
NextNonStreaming ==
    \E readFailed \in (IF ReadFindsClosed THEN {TRUE} ELSE BOOLEAN) :
      LET r == readNonStreaming(resp.Body, readFailed, now) IN
      /\ statusChecked' = TRUE
      /\ done' = TRUE
      /\ bodyRead' = [bytes |-> TextBody(<<>>), failed |-> readFailed]
      /\ err' = (IF r.err # NoErr THEN r.err ELSE err)
      /\ response' = (IF r.err = NoErr THEN r.response ELSE response)
      /\ results' = Append(results, NextResult(NilChunk, r.ret, now))
      /\ UNCHANGED <<readerPos>>

\* Next of a streaming Stream with status 200
NextStreamingNotDoneAtEOF ==
    \E failAt \in {-1} \cup (readerPos..Len(resp.Body)) :
      LET r == ReadLoop(resp.Body, readerPos, failAt, now) IN
      /\ statusChecked' = TRUE
      /\ readerPos' = r.pos
      /\ done' = (r.err # NoErr /\ r.err # EOF)
      /\ err' = (IF r.err # NoErr /\ r.err # EOF THEN r.err ELSE err)
      /\ results' = Append(results, NextResult(r.chunk, r.err, now))
      /\ UNCHANGED <<response, bodyRead>>

NextStreamingErrNotKept ==
    \E failAt \in {-1} \cup (readerPos..Len(resp.Body)) :
      LET r == ReadLoop(resp.Body, readerPos, failAt, now) IN
      /\ statusChecked' = TRUE
      /\ readerPos' = r.pos
      /\ done' = (r.err # NoErr)
      /\ err' = err
      /\ results' = Append(results, NextResult(r.chunk, r.err, now))
      /\ UNCHANGED <<response, bodyRead>>

NextStreaming ==
    \E failAt \in {-1} \cup (readerPos..Len(resp.Body)) :
      LET r == ReadLoop(resp.Body, readerPos, failAt, now) IN
      /\ statusChecked' = TRUE
      /\ readerPos' = r.pos
      /\ done' = (r.err # NoErr)
      /\ err' = (IF r.err # NoErr /\ r.err # EOF THEN r.err ELSE err)
      /\ results' = Append(results, NextResult(r.chunk, r.err, now))
      /\ UNCHANGED <<response, bodyRead>>

\* the body of Next, by the state it finds the Stream in
NextBody ==
    IF done THEN NextExhausted
    ELSE IF ~statusChecked /\ resp.StatusCode # StatusOK THEN NextUpstreamError
    ELSE IF ~statusChecked /\ ~streaming THEN NextNonStreaming
    ELSE NextStreaming

\* a whole Next call, with no other call on the Stream during it
StreamNext ==
    /\ ~nextPending
    /\ Len(results) < MaxNextCalls
    /\ NextBody
    /\ UNCHANGED <<resp, streaming, bodyClosed, closeCalls, closeErr,
                   nextPending, closedBefore, closedDuring>>
    /\ UNCHANGED <<clientVars, chatVars>>

\* a Next call is entered; it runs, or waits in its read of the body, until NextEnd
NextBegin ==
    /\ ~nextPending
    /\ Len(results) < MaxNextCalls
    /\ nextPending' = TRUE
    /\ closedBefore' = bodyClosed
    /\ closedDuring' = FALSE
    /\ UNCHANGED <<resp, streaming, done, statusChecked, response, err, readerPos,
                   bodyClosed, results, bodyRead, closeCalls, closeErr>>
    /\ UNCHANGED <<clientVars, chatVars>>

\* the pending Next call does its work and returns
NextEnd ==
    /\ nextPending
    /\ nextPending' = FALSE
    /\ NextBody
    /\ UNCHANGED <<resp, streaming, bodyClosed, closeCalls, closeErr,
                   closedBefore, closedDuring>>
    /\ UNCHANGED <<clientVars, chatVars>>

\* Stream.Response
Response == response
\* Stream.Err
Err == err

(* -------------------------------- Stream.Close ------------------------- *)
\* resp.Body.Close() of net/http: the first call may report an error, a
\* repeated call finds the body closed and returns nil
BodyCloseResults(closed) == IF closed THEN {NoErr} ELSE {NoErr, CloseError}

StreamCloseMarksDone ==
    /\ closeCalls < MaxCloseCalls
    /\ closeCalls' = closeCalls + 1
    /\ bodyClosed' = TRUE
    /\ done' = TRUE
    /\ closedDuring' = (closedDuring \/ nextPending)
    /\ \E e \in BodyCloseResults(bodyClosed) : closeErr' = e
    /\ UNCHANGED <<resp, streaming, statusChecked, response, err, readerPos,
                   results, bodyRead, nextPending, closedBefore>>
    /\ UNCHANGED <<clientVars, chatVars>>

StreamCloseDropsResponse ==
    /\ closeCalls < MaxCloseCalls
    /\ closeCalls' = closeCalls + 1
    /\ bodyClosed' = TRUE
    /\ response' = NilResponse
    /\ closedDuring' = (closedDuring \/ nextPending)
    /\ \E e \in BodyCloseResults(bodyClosed) : closeErr' = e
    /\ UNCHANGED <<resp, streaming, done, statusChecked, err, readerPos,
                   results, bodyRead, nextPending, closedBefore>>
    /\ UNCHANGED <<clientVars, chatVars>>

StreamClose ==
    /\ closeCalls < MaxCloseCalls
    /\ closeCalls' = closeCalls + 1
    /\ bodyClosed' = TRUE
    /\ closedDuring' = (closedDuring \/ nextPending)
    /\ \E e \in BodyCloseResults(bodyClosed) : closeErr' = e
    /\ UNCHANGED <<resp, streaming, done, statusChecked, response, err, readerPos,
                   results, bodyRead, nextPending, closedBefore>>
    /\ UNCHANGED <<clientVars, chatVars>>

(* ======================================================================= *)
(*                       Client.getCopilotToken                            *)
(* ======================================================================= *)
(* ------------------------------ environment ---------------------------- *)
\* the clock advances
Tick ==
    /\ now + TickStep <= MaxNow
    /\ now' = now + TickStep
    /\ UNCHANGED <<store, copilotToken, mu, pc, ret, calls, slow, recheckAt,
                   snap, issued, exchanges, inflight, firstRefresh, raced>>
    /\ UNCHANGED <<streamVars, chatVars>>

\* the credential store changes (login, logout, storage failure)
StoreChange ==
    /\ \E s \in StoreStates \ {store} : store' = s
    /\ UNCHANGED <<now, copilotToken, mu, pc, ret, calls, slow, recheckAt,
                   snap, issued, exchanges, inflight, firstRefresh, raced>>
    /\ UNCHANGED <<streamVars, chatVars>>

RECURSIVE SumUpTo(_, _)
SumUpTo(f, n) == IF n = 0 THEN 0 ELSE f[n] + SumUpTo(f, n - 1)
TotalCalls == SumUpTo(calls, NumCallers)

(* ------------------------- Client.getCopilotToken ---------------------- *)
\* a caller enters getCopilotToken
Call(c) ==
    /\ pc[c] \in {"idle", "done"}
    /\ TotalCalls < MaxCalls
    /\ calls' = [calls EXCEPT ![c] = @ + 1]
    /\ pc' = [pc EXCEPT ![c] = "rlock"]
    /\ ret' = [ret EXCEPT ![c] = NoRet]
    /\ slow' = [slow EXCEPT ![c] = FALSE]
    /\ recheckAt' = [recheckAt EXCEPT ![c] = 0]
    /\ snap' = [snap EXCEPT ![c] = NilToken]
    /\ issued' = [issued EXCEPT ![c] = 0]
    /\ UNCHANGED <<now, store, copilotToken, mu, exchanges, inflight, firstRefresh, raced>>
    /\ UNCHANGED <<streamVars, chatVars>>

\* the fast path under RLock: return the cached token or fall through to Lock
FastPath(c) ==
    /\ pc[c] = "rlock"
    /\ mu = 0
    /\ IF TokenFresh(copilotToken, now)
       THEN /\ ret' = [ret EXCEPT ![c] = RetToken(copilotToken, now)]
            /\ pc' = [pc EXCEPT ![c] = "done"]
            /\ slow' = slow
       ELSE /\ pc' = [pc EXCEPT ![c] = "lock"]
            /\ slow' = [slow EXCEPT ![c] = TRUE]
            /\ ret' = ret
    /\ raced' = (raced \/ \A d \in Callers : pc'[d] = "lock")
    /\ UNCHANGED <<now, store, copilotToken, mu, calls, recheckAt, snap, issued,
                   exchanges, inflight, firstRefresh>>
    /\ UNCHANGED <<streamVars, chatVars>>

LockNotExclusive(c) ==
    /\ pc[c] = "lock"
    /\ mu' = c
    /\ pc' = [pc EXCEPT ![c] = "recheck"]
    /\ snap' = [snap EXCEPT ![c] = copilotToken]
    /\ UNCHANGED <<now, store, copilotToken, ret, calls, slow, recheckAt, issued,
                   exchanges, inflight, firstRefresh, raced>>
    /\ UNCHANGED <<streamVars, chatVars>>

\* c.mu.Lock()
Lock(c) ==
    /\ pc[c] = "lock"
    /\ mu = 0
    /\ mu' = c
    /\ pc' = [pc EXCEPT ![c] = "recheck"]
    /\ snap' = [snap EXCEPT ![c] = copilotToken]
    /\ UNCHANGED <<now, store, copilotToken, ret, calls, slow, recheckAt, issued,
                   exchanges, inflight, firstRefresh, raced>>
    /\ UNCHANGED <<streamVars, chatVars>>

\* the double-check after acquiring the write lock
DoubleCheckSkipped(c) ==
    /\ pc[c] = "recheck"
    /\ mu = c
    /\ recheckAt' = [recheckAt EXCEPT ![c] = now]
    /\ pc' = [pc EXCEPT ![c] = "github"]
    /\ UNCHANGED <<now, store, copilotToken, mu, ret, calls, slow, snap, issued,
                   exchanges, inflight, firstRefresh, raced>>
    /\ UNCHANGED <<streamVars, chatVars>>

DoubleCheck(c) ==
    /\ pc[c] = "recheck"
    /\ mu = c
    /\ recheckAt' = [recheckAt EXCEPT ![c] = now]
    /\ IF TokenFresh(copilotToken, now)
       THEN /\ ret' = [ret EXCEPT ![c] = RetToken(copilotToken, now)]
            /\ pc' = [pc EXCEPT ![c] = "done"]
            /\ mu' = 0
       ELSE /\ pc' = [pc EXCEPT ![c] = "github"]
            /\ UNCHANGED <<ret, mu>>
    /\ UNCHANGED <<now, store, copilotToken, calls, slow, snap, issued,
                   exchanges, inflight, firstRefresh, raced>>
    /\ UNCHANGED <<streamVars, chatVars>>

\* Client.getGitHubToken: the stored credential, or an error
getGitHubToken(s) ==
    IF s = "error" THEN [ok |-> FALSE, err |-> "failed to get credentials"]
    ELSE IF s = "empty" THEN [ok |-> FALSE, err |-> "no GitHub token found"]
    ELSE [ok |-> TRUE, err |-> ""]

GetGitHubTokenKeepsLockOnError(c) ==
    /\ pc[c] = "github"
    /\ mu = c
    /\ IF getGitHubToken(store).ok
       THEN /\ pc' = [pc EXCEPT ![c] = "exchange"]
            /\ issued' = [issued EXCEPT ![c] = @ + 1]
            /\ exchanges' = exchanges + 1
            /\ inflight' = inflight + 1
            /\ UNCHANGED <<ret, mu, firstRefresh>>
       ELSE /\ ret' = [ret EXCEPT ![c] = RetError(getGitHubToken(store).err, now)]
            /\ pc' = [pc EXCEPT ![c] = "done"]
            /\ mu' = mu
            /\ firstRefresh' = IF firstRefresh.seen THEN firstRefresh
                               ELSE [NoRefresh EXCEPT !.seen = TRUE]
            /\ UNCHANGED <<issued, exchanges, inflight>>
    /\ UNCHANGED <<now, store, copilotToken, calls, slow, recheckAt, snap, raced>>
    /\ UNCHANGED <<streamVars, chatVars>>

\* getCopilotToken reads the credential; then refreshCopilotToken sends the
\* exchange request (httpClient.Do), still under the write lock
GetGitHubToken(c) ==
    /\ pc[c] = "github"
    /\ mu = c
    /\ IF getGitHubToken(store).ok
       THEN /\ pc' = [pc EXCEPT ![c] = "exchange"]
            /\ issued' = [issued EXCEPT ![c] = @ + 1]
            /\ exchanges' = exchanges + 1
            /\ inflight' = inflight + 1
            /\ UNCHANGED <<ret, mu, firstRefresh>>
       ELSE /\ ret' = [ret EXCEPT ![c] = RetError(getGitHubToken(store).err, now)]
            /\ pc' = [pc EXCEPT ![c] = "done"]
            /\ mu' = 0
            /\ firstRefresh' = IF firstRefresh.seen THEN firstRefresh
                               ELSE [NoRefresh EXCEPT !.seen = TRUE]
            /\ UNCHANGED <<issued, exchanges, inflight>>
    /\ UNCHANGED <<now, store, copilotToken, calls, slow, recheckAt, snap, raced>>
    /\ UNCHANGED <<streamVars, chatVars>>

\* the answers httpClient.Do / io.ReadAll / the endpoint can give
ExchangeAnswers ==
    [transport : {"failed", "readfailed"}, status : {0}, parses : {FALSE},
     token : {0}, expires_at : {0}]
    \cup
    [transport : {"ok"}, status : ExchangeStatuses \ {StatusOK}, parses : {FALSE},
     token : {0}, expires_at : {0}]
    \cup
    [transport : {"ok"}, status : {StatusOK}, parses : {FALSE},
     token : {0}, expires_at : {0}]
    \cup
    [transport : {"ok"}, status : {StatusOK}, parses : {TRUE},
     token : {IssuedToken(exchanges)}, expires_at : ExpiryValues]

\* Client.refreshCopilotToken, from the answer on: (*CopilotToken, error)
refreshCopilotToken(a) ==
    IF a.transport = "failed"
    THEN [ok |-> FALSE, err |-> "failed to request Copilot token", token |-> NilToken]
    ELSE IF a.transport = "readfailed"
    THEN [ok |-> FALSE, err |-> "failed to read response", token |-> NilToken]
    ELSE IF a.status # StatusOK
    THEN [ok |-> FALSE, err |-> "copilot token request failed with status", token |-> NilToken]
    ELSE IF ~a.parses
    THEN [ok |-> FALSE, err |-> "failed to parse token response", token |-> NilToken]
    ELSE [ok |-> TRUE, err |-> "", token |-> CopilotToken(a.token, a.expires_at)]

\* the exchange is answered; on success the cache is replaced and the token returned
RecvExchangeWritesFirst(c) ==
    /\ pc[c] = "exchange"
    /\ mu = c
    /\ \E a \in ExchangeAnswers :
         LET r == refreshCopilotToken(a) IN
         /\ copilotToken' = CopilotToken(a.token, a.expires_at)
         /\ ret' = [ret EXCEPT ![c] = IF r.ok THEN RetToken(r.token, now)
                                      ELSE RetError(r.err, now)]
         /\ firstRefresh' = IF firstRefresh.seen THEN firstRefresh
                         ELSE [seen |-> TRUE, ok |-> r.ok, Token |-> r.token.Token,
                               ExpiresAt |-> r.token.ExpiresAt]
    /\ inflight' = inflight - 1
    /\ pc' = [pc EXCEPT ![c] = "done"]
    /\ mu' = 0
    /\ UNCHANGED <<now, store, calls, slow, recheckAt, snap, issued, exchanges, raced>>
    /\ UNCHANGED <<streamVars, chatVars>>

RecvExchange(c) ==
    /\ pc[c] = "exchange"
    /\ mu = c
    /\ \E a \in ExchangeAnswers :
         LET r == refreshCopilotToken(a) IN
         /\ copilotToken' = IF r.ok THEN r.token ELSE copilotToken
         /\ ret' = [ret EXCEPT ![c] = IF r.ok THEN RetToken(r.token, now)
                                      ELSE RetError(r.err, now)]
         /\ firstRefresh' = IF firstRefresh.seen THEN firstRefresh
                         ELSE [seen |-> TRUE, ok |-> r.ok, Token |-> r.token.Token,
                               ExpiresAt |-> r.token.ExpiresAt]
    /\ inflight' = inflight - 1
    /\ pc' = [pc EXCEPT ![c] = "done"]
    /\ mu' = 0
    /\ UNCHANGED <<now, store, calls, slow, recheckAt, snap, issued, exchanges, raced>>
    /\ UNCHANGED <<streamVars, chatVars>>

(* ======================================================================= *)
(*              Provider.ChatCompletion and Client.SendRequest             *)
(* ======================================================================= *)
Roles == {"system", "user", "assistant", "tool"}
TextPart == [Type |-> "text"]
ImageURLPart == [Type |-> "image_url"]
Contents == {<<TextPart>>, <<TextPart, ImageURLPart>>}
Messages == [Role : Roles, Content : Contents]
MessageSeqs == UNION { [1..n -> Messages] : n \in 0..MaxMessages }
Requests == [Messages : MessageSeqs, Stream : BOOLEAN]

\* api.Message.GetContentParts
GetContentParts(msg) == msg.Content

transformMessagesDropsSystem(messages) ==
    LET NotSystem(m) == m.Role # "system" IN SelectSeq(messages, NotSystem)

\* transformMessages
transformMessages(messages) ==
    [i \in 1..Len(messages) |->
        IF messages[i].Role = "system"
        THEN [messages[i] EXCEPT !.Role = "assistant"]
        ELSE messages[i]]

\* getInitiator
getInitiator(messages) ==
    IF \E i \in 1..Len(messages) : messages[i].Role = "assistant" \/ messages[i].Role = "tool"
    THEN "agent"
    ELSE "user"

hasImageContentFirstPartOnly(messages) ==
    \E i \in 1..Len(messages) :
        /\ Len(GetContentParts(messages[i])) >= 1
        /\ \/ GetContentParts(messages[i])[1].Type = "image_url"
           \/ GetContentParts(messages[i])[1].Type = "image"

\* hasImageContent
hasImageContent(messages) ==
    \E i \in 1..Len(messages) :
        \E j \in 1..Len(GetContentParts(messages[i])) :
            \/ GetContentParts(messages[i])[j].Type = "image_url"
            \/ GetContentParts(messages[i])[j].Type = "image"

NoRequest == [Messages |-> <<>>, Stream |-> FALSE]
NoWire == [sent |-> FALSE, Authorization |-> 0, Accept |-> "", XInitiator |-> "",
           Vision |-> FALSE, Body |-> NoRequest]

\* the headers and body SendRequest puts on the wire
WireRequest(r, token) ==
    [sent |-> TRUE,
     Authorization |-> token,
     Accept |-> IF r.Stream THEN "text/event-stream" ELSE "application/json",
     XInitiator |-> getInitiator(r.Messages),
     Vision |-> hasImageContent(r.Messages),
     Body |-> r]

ChatInit ==
    /\ req = NoRequest
    /\ chatReq = NoRequest
    /\ wire = NoWire
    /\ chat = "idle"
    /\ chatErr = ""

\* ChatCompletion builds the api request from the caller's request and calls
\* SendRequest, which first asks for the Copilot token
ChatCompletion(c) ==
    /\ chat = "idle"
    /\ \E r \in Requests :
         /\ req' = r
         /\ chatReq' = [Messages |-> transformMessages(r.Messages), Stream |-> r.Stream]
    /\ wire' = NoWire
    /\ chatErr' = ""
    /\ chat' = "token"
    /\ pc[c] \in {"idle", "done"}
    /\ TotalCalls < MaxCalls
    /\ calls' = [calls EXCEPT ![c] = @ + 1]
    /\ pc' = [pc EXCEPT ![c] = "rlock"]
    /\ ret' = [ret EXCEPT ![c] = NoRet]
    /\ slow' = [slow EXCEPT ![c] = FALSE]
    /\ recheckAt' = [recheckAt EXCEPT ![c] = 0]
    /\ snap' = [snap EXCEPT ![c] = NilToken]
    /\ issued' = [issued EXCEPT ![c] = 0]
    /\ UNCHANGED <<now, store, copilotToken, mu, exchanges, inflight, firstRefresh, raced>>
    /\ UNCHANGED streamVars

SendRequestSendsWithoutToken(c) ==
    /\ chat = "token"
    /\ pc[c] = "done"
    /\ IF ret[c].kind = "error"
       THEN /\ chat' = "sent"
            /\ chatErr' = ret[c].err
            /\ wire' = WireRequest(chatReq, 0)
       ELSE /\ chat' = "sent"
            /\ wire' = WireRequest(chatReq, ret[c].Token)
            /\ chatErr' = chatErr
    /\ UNCHANGED <<req, chatReq, clientVars, streamVars>>

\* SendRequest after getCopilotToken returned: give up on its error, or build
\* the wire request and send it
SendRequest(c) ==
    /\ chat = "token"
    /\ pc[c] = "done"
    /\ IF ret[c].kind = "error"
       THEN /\ chat' = "error"
            /\ chatErr' = ret[c].err
            /\ wire' = wire
       ELSE /\ chat' = "sent"
            /\ wire' = WireRequest(chatReq, ret[c].Token)
            /\ chatErr' = chatErr
    /\ UNCHANGED <<req, chatReq, clientVars, streamVars>>

\* httpClient.Do returns: an error, or the response ChatCompletion wraps in a Stream
ChatResponse ==
    /\ chat = "sent"
    /\ \/ /\ chat' = "error"
          /\ chatErr' = "failed to send request"
          /\ UNCHANGED streamVars
       \/ /\ chat' = "stream"
          /\ chatErr' = chatErr
          /\ \E r \in Responses(req.Stream) : StreamBecomes(NewStream(r, req.Stream))
    /\ UNCHANGED <<req, chatReq, wire, clientVars>>

(* ======================================================================= *)
(*                            Specifications                               *)
(* ======================================================================= *)
vars == <<clientVars, streamVars, chatVars>>

\* concurrent getCopilotToken calls on one Client
Init ==
    /\ ClientInit
    /\ StreamIs(NewStream(NoHTTPResponse, FALSE))
    /\ ChatInit

Next ==
    \/ Tick
    \/ StoreChange
    \/ \E c \in Callers : Call(c)
    \/ \E c \in Callers : FastPath(c)
    \/ \E c \in Callers : Lock(c)
    \/ \E c \in Callers : DoubleCheck(c)
    \/ \E c \in Callers : GetGitHubToken(c)
    \/ \E c \in Callers : RecvExchange(c)

Spec == Init /\ [][Next]_vars

\* the steps of caller c inside getCopilotToken
CallerStep(c) ==
    \/ FastPath(c)
    \/ Lock(c)
    \/ DoubleCheck(c)
    \/ GetGitHubToken(c)
    \/ RecvExchange(c)

\* concurrent getCopilotToken calls within one instant of the clock, in which
\* a caller that can take a step takes it (the goroutine is scheduled, a free
\* mutex is handed to a waiter, and the exchange request ends at the latest
\* with the http.Client timeout)
RetryStep ==
    \/ StoreChange
    \/ \E c \in Callers : Call(c)
    \/ \E c \in Callers : CallerStep(c)

RetrySpec == Init /\ [][RetryStep]_vars /\ \A c \in Callers : WF_vars(CallerStep(c))

\* the life of one Stream made by NewStream from any response
StreamInit ==
    /\ ClientInit
    /\ store = "ok"
    /\ \E s \in BOOLEAN : \E r \in Responses(s) : StreamIs(NewStream(r, s))
    /\ ChatInit

StreamStep ==
    \/ Tick
    \/ StreamNext
    \/ StreamClose

StreamSpec == StreamInit /\ [][StreamStep]_vars

\* one Stream whose Next calls take time, so that Close can run during them;
\* the pending read returns (at the latest when the body is closed or the
\* http.Client timeout of NewClient passes), so NextEnd is weakly fair
InFlightStep ==
    \/ NextBegin
    \/ NextEnd
    \/ StreamClose

InFlightSpec == StreamInit /\ [][InFlightStep]_vars /\ WF_vars(NextEnd)

\* the error normalizer at work: one Stream over a response with a failure
\* status and any of the error bodies
ErrorInit ==
    /\ ClientInit
    /\ store = "ok"
    /\ \E s \in BOOLEAN :
         \E r \in [StatusCode : StatusCodes \ {StatusOK}, Body : ErrorInputs] :
             StreamIs(NewStream(r, s))
    /\ ChatInit

ErrorStep ==
    \/ StreamNext
    \/ StreamClose

ErrorSpec == ErrorInit /\ [][ErrorStep]_vars

\* one ChatCompletion call on a new Provider, from the request to NewStream
\* (the cache is empty, so the clock has no part in the call and stands still)
ProviderStep ==
    \/ StoreChange
    \/ ChatCompletion(1)
    \/ FastPath(1)
    \/ Lock(1)
    \/ DoubleCheck(1)
    \/ GetGitHubToken(1)
    \/ RecvExchange(1)
    \/ SendRequest(1)
    \/ ChatResponse

ProviderSpec == Init /\ [][ProviderStep]_vars

(* ======================================================================= *)
(*                 Claims about Client.getCopilotToken                     *)
(* ======================================================================= *)

\* every caller has made exactly one call, took the slow path in it and returned
RaceOver == \A c \in Callers : calls[c] = 1 /\ pc[c] = "done" /\ slow[c]

FirstExchangeHolds ==
    /\ firstRefresh.seen /\ firstRefresh.ok
    /\ \A c \in Callers : recheckAt[c] + Margin < firstRefresh.ExpiresAt

C2_ReturnedTokenBeyondMargin ==
    \A c \in Callers :
        ret[c].kind = "token" => ret[c].at + Margin < ret[c].ExpiresAt

CredentialErrors == {"failed to get credentials", "no GitHub token found"}
ExchangeErrors == {"failed to request Copilot token", "failed to read response",
                   "copilot token request failed with status",
                   "failed to parse token response"}

\* C3: a getCopilotToken call that returns an error leaves Client.copilotToken
\* exactly as it was when the call took the exclusive lock (absent or stale),
\* the error is one of the credential or exchange errors, and a call that
\* failed on the credential issued no exchange request.
C3_FailureLeavesCache ==
    [][\A c \in Callers :
         (pc[c] # "done" /\ pc'[c] = "done" /\ ret'[c].kind = "error") =>
            /\ copilotToken' = snap[c]
            /\ copilotToken' = copilotToken
            /\ ret'[c].err \in CredentialErrors \cup ExchangeErrors
            /\ (ret'[c].err \in CredentialErrors =>
                   issued'[c] = 0 /\ exchanges' = exchanges)]_vars

\* witness of C3: one call failed on the credential without an exchange, another
\* failed on the exchange, and the stale cached token is still in place
C3_Witness ==
    \E c, d \in Callers :
        /\ pc[c] = "done" /\ ret[c].err \in CredentialErrors /\ issued[c] = 0
        /\ pc[d] = "done" /\ ret[d].err \in ExchangeErrors /\ issued[d] = 1
        /\ ~copilotToken.isNil /\ copilotToken = snap[d]

(* ======================================================================= *)
(*                        Claims about the Stream                          *)
(* ======================================================================= *)
Exhausted == \E i \in 1..Len(results) : results[i].err # NoErr
TerminalErrors == {i \in 1..Len(results) : results[i].err \notin {NoErr, EOF}}
PayloadsOf(chunks) == [i \in 1..Len(chunks) |-> chunks[i].payload]
ReturnedChunks ==
    LET HasChunk(r) == ~r.chunk.isNil
        rs == SelectSeq(results, HasChunk)
    IN  [i \in 1..Len(rs) |-> rs[i].chunk]
IsChunkEvent(e) == e.len > 0 /\ e.valid

\* C4: on a Stream whose status is not 200 the first Next returns no chunk and
\* an UpstreamError with that status and with the normalized body as message
\* (the normalization of the bytes read, which are the whole body unless the
\* read failed), and every later Next returns (no chunk, io.EOF).
C4_FailureStatusGivesUpstreamError ==
    (resp.StatusCode # StatusOK /\ Len(results) >= 1) =>
        /\ results[1].chunk = NilChunk
        /\ results[1].err.kind = "UpstreamError"
        /\ results[1].err.StatusCode = resp.StatusCode
        /\ results[1].err.Message = parseUpstreamError(bodyRead.bytes)
        /\ (~bodyRead.failed => results[1].err.Message = parseUpstreamError(resp.Body))
        /\ \A i \in 2..Len(results) : results[i] = NextResult(NilChunk, EOF, results[i].at)

\* witness of C4: a 500 whose JSON error body was read and hinted, then io.EOF
C4_Witness ==
    /\ resp.StatusCode = 500 /\ resp.Body.valid /\ resp.Body.errorMessage # <<>>
    /\ Len(results) >= 2
    /\ ~bodyRead.failed
    /\ results[1].err.Message = resp.Body.errorMessage \o TxtHint
    /\ results[2].err = EOF

\* C5: on a streaming Stream with status 200 the chunks returned by the Next
\* calls so far are exactly the events read so far whose data is non-empty and
\* decodes, in upstream order; empty and undecodable events never end the
\* stream (a Next ends it only on the reader's end or on a failed read), and
\* when the reader reports the end every event has been read and Next returns
\* io.EOF.
C5_ChunksAreDecodableEventsInOrder ==
    (streaming /\ resp.StatusCode = StatusOK) =>
        /\ PayloadsOf(ReturnedChunks)
             = PayloadsOf(SelectSeq(SubSeq(resp.Body, 1, readerPos), IsChunkEvent))
        /\ \A i \in 1..Len(results) :
             /\ (results[i].err = NoErr) = ~results[i].chunk.isNil
             /\ results[i].err \in {NoErr, EOF, ReadError}
        /\ (~done => \A i \in 1..Len(results) : results[i].err = NoErr)
        /\ (done /\ err = NoErr =>
              /\ readerPos = Len(resp.Body)
              /\ \E i \in 1..Len(results) :
                   /\ results[i].err = EOF
                   /\ \A k \in 1..(i - 1) : results[k].err = NoErr)

\* witness of C5: an empty event, a malformed event and a chunk gave one chunk
\* and then io.EOF
C5_Witness ==
    /\ streaming /\ resp.StatusCode = StatusOK
    /\ resp.Body = <<EmptyData, MalformedData, BareChunkData>>
    /\ Len(results) = 2
    /\ results[1].chunk.payload = "p1" /\ results[1].err = NoErr
    /\ results[2] = NextResult(NilChunk, EOF, results[2].at)

\* C6: on a non-streaming Stream with status 200 and a decodable body that is
\* read without failure, the first Next returns (no chunk, io.EOF), no Next
\* returns a chunk, Response() is nil before the first Next and is the decoded
\* response after it.
C6_NonStreamingResponse ==
    (~streaming /\ resp.StatusCode = StatusOK /\ resp.Body.valid /\ ~bodyRead.failed) =>
        /\ (Len(results) = 0 => Response = NilResponse)
        /\ \A i \in 1..Len(results) : results[i].chunk = NilChunk
        /\ (Len(results) >= 1 =>
              /\ results[1].err = EOF
              /\ ~Response.isNil
              /\ Response = normalizeResponse(Decoded(resp.Body), results[1].at))

\* witness of C6: the response is available after the first Next
C6_Witness ==
    /\ ~streaming /\ resp.StatusCode = StatusOK /\ resp.Body.valid /\ ~bodyRead.failed
    /\ Len(results) >= 2
    /\ results[1].err = EOF
    /\ Response.payload = "answer"

\* C7: once a Next call has returned io.EOF or an error, every later Next call
\* returns (no chunk, io.EOF) and leaves Err() and Response() unchanged.
C7_ExhaustedIsStable ==
    [][(Exhausted /\ Len(results') = Len(results) + 1) =>
          /\ results'[Len(results')].chunk = NilChunk
          /\ results'[Len(results')].err = EOF
          /\ Err' = Err
          /\ Response' = Response]_vars

\* witness of C7: three Next calls after the stream ended by itself
C7_Witness ==
    /\ streaming /\ resp.StatusCode = StatusOK
    /\ Len(results) = 4
    /\ results[1].err = EOF
    /\ \A i \in 2..4 : results[i] = NextResult(NilChunk, EOF, results[i].at)

\* C8: at most one Next call of a Stream returns an error other than io.EOF;
\* if one did, Err() is that error from then on, and otherwise (the upstream
\* ended by itself, or the non-streaming read succeeded) Err() is nil.
C8_OneTerminalError ==
    /\ Cardinality(TerminalErrors) <= 1
    /\ \A i \in TerminalErrors : Err = results[i].err
    /\ (TerminalErrors = {} => Err = NoErr)

\* witness of C8: a streaming read failed after a chunk; Err() keeps the error
\* over later Next calls
C8_Witness ==
    /\ streaming /\ resp.StatusCode = StatusOK
    /\ Len(results) >= 3
    /\ results[1].err = NoErr
    /\ results[2].err = ReadError
    /\ Err = ReadError

\* C10: Close changes none of done, statusChecked, err and response in any
\* state, and a Close on a Stream already closed returns nil and changes
\* nothing of the Stream and the connection.
C10_CloseIdempotent ==
    [][(closeCalls' = closeCalls + 1) =>
          /\ bodyClosed'
          /\ UNCHANGED <<done, statusChecked, err, response>>
          /\ (bodyClosed =>
                /\ closeErr' = NoErr
                /\ UNCHANGED <<resp, streaming, done, statusChecked, response, err,
                               readerPos, bodyClosed, results, bodyRead>>)]_vars

\* witness of C10: Close was called twice, with Next calls before and between
C10_Witness ==
    /\ closeCalls = 2 /\ bodyClosed /\ closeErr = NoErr
    /\ Len(results) >= 2
    /\ ~done

(* ======================================================================= *)
(*                  Claims about Provider.ChatCompletion                   *)
(* ======================================================================= *)

\* C9: the X-Initiator header of the wire request is "user" if no message of
\* the caller's request, with the roles the caller gave, has role assistant or
\* tool, and "agent" otherwise.
C9_InitiatorFromCallerRoles ==
    wire.sent =>
        wire.XInitiator =
            (IF \E i \in 1..Len(req.Messages) : req.Messages[i].Role \in {"assistant", "tool"}
             THEN "agent" ELSE "user")

(* ======================================================================= *)
(*               Claims about Close during a pending Next                  *)
(* ======================================================================= *)
LastResult == results[Len(results)]

\* C11 as stated, its final part: when Close ran while a Next was pending, the
\* stream is exhausted once that Next has returned.
C11_ExhaustedAfterInFlightNext ==
    (closedDuring /\ ~nextPending) => done

\* C11 amended: a Close that runs while a Next is pending changes none of the
\* fields Next writes (done, statusChecked, err, response) and nothing else of
\* what Next works on; the pending Next returns; and it returns either a chunk
\* that had been read, or an error or io.EOF after which the stream is
\* exhausted.
C11_CloseDuringNextIsSafe ==
    /\ [][(closeCalls' = closeCalls + 1 /\ nextPending) =>
            UNCHANGED <<done, statusChecked, err, response, readerPos, results,
                        nextPending>>]_vars
    /\ [](closedDuring /\ ~nextPending =>
            \/ (LastResult.err = NoErr /\ ~LastResult.chunk.isNil /\ ~done)
            \/ (LastResult.err # NoErr /\ LastResult.chunk.isNil /\ done))
    /\ (nextPending ~> ~nextPending)

\* witness of C11: a streaming Next was pending when Close ran, its read failed,
\* it returned the error and the stream is exhausted
C11_Witness ==
    /\ streaming /\ resp.StatusCode = StatusOK
    /\ closedDuring /\ ~nextPending /\ ~closedBefore
    /\ Len(results) >= 2
    /\ LastResult.err = ReadError
    /\ done /\ Err = ReadError

\* C12: every chunk returned by Next and every response returned by Response()
\* has a non-empty object kind and a non-zero creation timestamp, and the
\* object kind, the creation timestamp and the rest of the content that
\* upstream provided are passed through unchanged.
C12_NormalizedAndPassedThrough ==
    /\ (streaming /\ resp.StatusCode = StatusOK) =>
          LET evs == SelectSeq(SubSeq(resp.Body, 1, readerPos), IsChunkEvent) IN
          /\ Len(ReturnedChunks) = Len(evs)
          /\ \A i \in 1..Len(ReturnedChunks) :
               LET c == ReturnedChunks[i] IN
               /\ c.Object # "" /\ c.Created # 0
               /\ (evs[i].Object # "" => c.Object = evs[i].Object)
               /\ (evs[i].Created # 0 => c.Created = evs[i].Created)
               /\ c.payload = evs[i].payload
    /\ \A i \in 1..Len(results) :
          ~results[i].chunk.isNil =>
              results[i].chunk.Object # "" /\ results[i].chunk.Created # 0
    /\ ~Response.isNil =>
          /\ Response.Object # "" /\ Response.Created # 0
          /\ (resp.Body.Object # "" => Response.Object = resp.Body.Object)
          /\ (resp.Body.Created # 0 => Response.Created = resp.Body.Created)
          /\ Response.payload = resp.Body.payload

\* witness of C12: a chunk without object kind and timestamp and a chunk with
\* both were returned, the first filled in and the second as upstream sent it
C12_Witness ==
    /\ streaming /\ resp.StatusCode = StatusOK
    /\ resp.Body = <<BareChunkData, FullChunkData>>
    /\ Len(results) = 2
    /\ results[1].chunk.Object = "chat.completion.chunk"
    /\ results[1].chunk.Created = results[1].at
    /\ results[2].chunk.Object = FullChunkData.Object
    /\ results[2].chunk.Created = FullChunkData.Created

\* C18: on a non-streaming Stream with status 200 whose body cannot be read or
\* cannot be decoded, the first Next returns that read or decode error (not
\* io.EOF) and no chunk, Response() stays nil, Err() returns the same error,
\* and every later Next returns (no chunk, io.EOF).
C18_NonStreamingFailure ==
    (~streaming /\ resp.StatusCode = StatusOK /\ Len(results) >= 1
       /\ (bodyRead.failed \/ ~resp.Body.valid)) =>
        /\ results[1].chunk = NilChunk
        /\ results[1].err = (IF bodyRead.failed THEN ReadError ELSE DecodeError)
        /\ results[1].err # EOF
        /\ Response = NilResponse
        /\ Err = results[1].err
        /\ \A i \in 2..Len(results) : results[i] = NextResult(NilChunk, EOF, results[i].at)

\* witness of C18: an undecodable body was read, the first Next returned the
\* decode error and the second io.EOF
C18_Witness ==
    /\ ~streaming /\ resp.StatusCode = StatusOK
    /\ ~resp.Body.valid /\ ~bodyRead.failed
    /\ Len(results) >= 2
    /\ results[1].err = DecodeError
    /\ results[2].err = EOF
    /\ Err = DecodeError /\ Response.isNil

\* C13: transformMessages returns a sequence of the same length and order as
\* the caller's in which each message equals the caller's message except that
\* role system is replaced by assistant, every other role being kept; the
\* caller's message sequence is not modified by the call.
C13_TransformKeepsAllButSystemRole ==
    /\ [](chat # "idle" =>
            /\ Len(chatReq.Messages) = Len(req.Messages)
            /\ \A i \in 1..Len(req.Messages) :
                 /\ chatReq.Messages[i].Content = req.Messages[i].Content
                 /\ chatReq.Messages[i].Role =
                      (IF req.Messages[i].Role = "system" THEN "assistant"
                       ELSE req.Messages[i].Role))
    /\ [][chat # "idle" => req' = req]_vars

\* witness of C13: a system message followed by a user message went out as an
\* assistant message followed by a user message
C13_Witness ==
    /\ chat = "sent"
    /\ Len(req.Messages) = 2
    /\ req.Messages[1].Role = "system" /\ req.Messages[2].Role = "user"
    /\ wire.Body.Messages[1].Role = "assistant" /\ wire.Body.Messages[2].Role = "user"

ImageTypes == {"image_url", "image"}

\* C16: the wire request carries the Copilot-Vision-Request header if and only
\* if at least one content part of at least one message of the request has an
\* image type; no header is on a request without image parts.
C16_VisionHeaderIffImagePart ==
    /\ wire.sent =>
         (wire.Vision <=>
            \E i \in 1..Len(req.Messages) :
                \E j \in 1..Len(req.Messages[i].Content) :
                    req.Messages[i].Content[j].Type \in ImageTypes)
    /\ ~wire.sent => ~wire.Vision

\* witness of C16: the only image part is the second part of the second message
C16_Witness ==
    /\ wire.sent /\ wire.Vision
    /\ Len(req.Messages) = 2
    /\ req.Messages[1].Content = <<TextPart>>
    /\ req.Messages[2].Content = <<TextPart, ImageURLPart>>

\* C19: when getCopilotToken fails inside ChatCompletion, the call ends with
\* that error and without a Stream, nothing is sent to the chat endpoint, and
\* the call made one attempt only: one getCopilotToken call and at most one
\* token exchange.
C19_CredentialFailureEndsCall ==
    (chat \notin {"idle", "token"} /\ ret[1].kind = "error") =>
        /\ chat = "error"
        /\ chatErr = ret[1].err
        /\ chatErr \in CredentialErrors \cup ExchangeErrors
        /\ ~wire.sent
        /\ resp = NoHTTPResponse
        /\ calls[1] = 1
        /\ issued[1] <= 1 /\ exchanges <= 1

\* witness of C19: the exchange was refused and ChatCompletion returned the error
C19_Witness ==
    /\ chat = "error"
    /\ ret[1].kind = "error"
    /\ chatErr \in ExchangeErrors
    /\ exchanges = 1
    /\ ~wire.sent

(* ======================================================================= *)
(*                 More claims about getCopilotToken                       *)
(* ======================================================================= *)
UnderLock(c) == pc[c] \in {"recheck", "github", "exchange"}

\* C20: on one Client at most one token-exchange request is in flight at any
\* moment; the cached token changes only in a step of the caller that holds the
\* exclusive lock, which replaces it by the token and expiry of the one answer
\* to its exchange; and a caller returning on the fast path returns the token
\* and the expiry that are cached together at that moment, with no writer
\* holding the lock.
C20_OneExchangeOneWriter ==
    /\ [](inflight <= 1)
    /\ [](\A c \in Callers : UnderLock(c) => mu = c)
    /\ [][copilotToken' # copilotToken =>
            \E c \in Callers :
                /\ mu = c /\ pc[c] = "exchange" /\ pc'[c] = "done"
                /\ \A d \in Callers \ {c} : ~UnderLock(d) /\ pc'[d] = pc[d]
                /\ \E e \in ExpiryValues :
                     copilotToken' = CopilotToken(IssuedToken(exchanges), e)
                /\ ret'[c].Token = copilotToken'.Token
                /\ ret'[c].ExpiresAt = copilotToken'.ExpiresAt]_vars
    /\ [][\A c \in Callers :
            (pc[c] = "rlock" /\ pc'[c] = "done") =>
                /\ mu = 0
                /\ copilotToken' = copilotToken
                /\ ret'[c].kind = "token"
                /\ ret'[c].Token = copilotToken.Token
                /\ ret'[c].ExpiresAt = copilotToken.ExpiresAt]_vars

\* witness of C20: a caller returned, on the fast path, the token another
\* caller's exchange cached, while a later exchange is in flight
C20_Witness ==
    \E c \in Callers : \E d \in Callers \ {c} :
        /\ pc[c] = "done" /\ ~slow[c] /\ ret[c].kind = "token"
        /\ pc[d] = "exchange" /\ inflight = 1 /\ exchanges = 2
        /\ ret[c].Token = IssuedToken(1)
        /\ copilotToken.Token = IssuedToken(1)

InCall(c) == pc[c] \notin {"idle", "done"}
Failed(c) == pc[c] = "done" /\ ret[c].kind = "error"

\* C17: a getCopilotToken call that fails releases the exclusive lock and
\* leaves the cache as it was, so nothing of the failure is kept; a call that
\* finds no valid cached token, whether or not earlier calls failed, reads the
\* credential anew and, when the store has one, issues a new exchange; hence
\* every call returns, and it returns a token unless the store or the exchange
\* endpoint failed in that very call.
C17_FailureLeavesNextCallFree ==
    /\ [][\A c \in Callers :
            (InCall(c) /\ Failed(c)') => (mu = c /\ mu' = 0 /\ copilotToken' = copilotToken)]_vars
    /\ [](\A c \in Callers :
            (pc[c] = "done" /\ slow[c] /\ ~TokenFresh(snap[c], recheckAt[c])) =>
                \/ (ret[c].kind = "token" /\ issued[c] = 1)
                \/ (ret[c].kind = "error" /\ ret[c].err \in ExchangeErrors /\ issued[c] = 1)
                \/ (ret[c].kind = "error" /\ ret[c].err \in CredentialErrors /\ issued[c] = 0))
    /\ \A c \in Callers : InCall(c) ~> (pc[c] = "done")

\* witness of C17: the first exchange failed, nothing was cached, and a later
\* call made the second exchange and obtained its token
C17_Witness ==
    \E c \in Callers : \E d \in Callers \ {c} :
        /\ Failed(c) /\ ret[c].err \in ExchangeErrors /\ issued[c] = 1
        /\ pc[d] = "done" /\ ret[d].kind = "token" /\ issued[d] = 1
        /\ exchanges = 2
        /\ ret[d].Token = IssuedToken(2)
        /\ copilotToken.Token = IssuedToken(2)
        /\ mu = 0

(* ======================================================================= *)
(*                 Claims about the error normalizer                       *)
(* ======================================================================= *)
\* the bytes of UTF-8 text that continue a character
ContinuationBytes == {"<A9>"}
CharCount(s) == Cardinality({i \in 1..Len(s) : s[i] \notin ContinuationBytes})
\* the first n characters of a text of more than n characters
FirstChars(s, n) ==
    LET conts == {i \in 1..Len(s) : s[i] \in ContinuationBytes}
        p == CHOOSE i \in (1..Len(s)) \ conts :
                 (i - 1) - Cardinality({j \in conts : j < i}) = n
    IN  SubSeq(s, 1, p - 1)

SameLetter(a, b) ==
    \/ a = b
    \/ (a \in DOMAIN UpperToLower /\ UpperToLower[a] = b)
    \/ (b \in DOMAIN UpperToLower /\ UpperToLower[b] = a)
\* s contains sub, letters compared without regard to case
ContainsFold(s, sub) ==
    \E i \in 1..(Len(s) - Len(sub) + 1) :
        \A k \in 1..Len(sub) : SameLetter(s[i + k - 1], sub[k])
MentionsUnavailableModel(m) ==
    /\ ContainsFold(m, TxtModel)
    /\ (ContainsFold(m, TxtNotSupported) \/ ContainsFold(m, TxtNotAvailable))
WithHint(m) == IF MentionsUnavailableModel(m) THEN m \o TxtHint ELSE m

\* the message C14 describes for a body
MessageByPriority(body) ==
    IF body.valid /\ body.errorMessage # <<>> THEN body.errorMessage
    ELSE IF body.valid /\ body.message # <<>> THEN body.message
    ELSE IF Len(body.raw) > MaxErrorBodyLen /\ CharCount(body.raw) > MaxErrorBodyLen
    THEN FirstChars(body.raw, MaxErrorBodyLen) \o TxtEllipsis
    ELSE IF body.raw # <<>> THEN body.raw
    ELSE TxtUnknownError

\* C14: the message of the UpstreamError is chosen from the bytes read by a
\* fixed priority: the nested error.message if non-empty, else the top-level
\* message if non-empty, else the raw body, cut to exactly its first 500
\* characters followed by "..." when it has more than 500 characters, else
\* "unknown error" when the body is empty (the hint pass then applies).
C14_MessageByPriority ==
    (resp.StatusCode # StatusOK /\ Len(results) >= 1) =>
        results[1].err.Message = WithHint(MessageByPriority(bodyRead.bytes))

\* C15: the hint is appended to the normalized message if and only if the
\* message, letters compared without regard to case, contains "model" and
\* also "not supported" or "not available"; any other message, such as
\* "file not available", is returned as it is.
C15_HintIffModelUnavailable ==
    (resp.StatusCode # StatusOK /\ Len(results) >= 1
       /\ upstreamMessage(bodyRead.bytes) # <<>>) =>
        LET m == upstreamMessage(bodyRead.bytes) IN
        /\ MentionsUnavailableModel(m) => results[1].err.Message = m \o TxtHint
        /\ ~MentionsUnavailableModel(m) => results[1].err.Message = m

\* witness of C15: a message in mixed case about a model that is not available
\* got the hint
C15_Witness ==
    /\ resp.StatusCode # StatusOK /\ Len(results) >= 1 /\ ~bodyRead.failed
    /\ resp.Body.valid
    /\ resp.Body.errorMessage = <<"t", "h", "e", " ", "M", "O", "D", "E", "L", " ", "g", "p", "t", "-", "x", " ", "i", "s", " ", "N", "o", "t", " ", "A", "v", "a", "i", "l", "a", "b", "l", "e">>
    /\ results[1].err.Message = resp.Body.errorMessage \o TxtHint

\* a second case of C15: "file not available" is returned without the hint
C15_WitnessUnchanged ==
    /\ resp.StatusCode # StatusOK /\ Len(results) >= 1 /\ ~bodyRead.failed
    /\ ~resp.Body.valid
    /\ resp.Body.raw = <<"f", "i", "l", "e", " ", "n", "o", "t", " ", "a", "v", "a", "i", "l", "a", "b", "l", "e">>
    /\ results[1].err.Message = resp.Body.raw
====
